---- MODULE Spec2Model ----
(***************************************************************************)
(* Model of src/display/ui_state.rs: the per-tick snapshot aggregation     *)
(* UIState::new and the exponential-decay estimator calc_avg_bandwidth.    *)
(*                                                                         *)
(* Maps (BTreeMap / HashMap) are TLA+ functions whose DOMAIN is the key    *)
(* set.  An Option is a sequence of length 0 (None) or 1 (Some).  u128     *)
(* counters are naturals (the values reached here are far below 2^128).    *)
(* An f32 holding a multiple of 1/DecayDen is the integer numerator of     *)
(* that fraction, rounded to the 24 significant bits an f32 keeps.         *)
(***************************************************************************)
EXTENDS Integers, Sequences, FiniteSets, TLC

VARIABLES state, old_state, connections_to_procs, utilization_before,
          network_utilization, tick

vars == <<state, old_state, connections_to_procs, utilization_before,
          network_utilization, tick>>

(***************************************************************************)
(* Bounds of the model.                                                    *)
(***************************************************************************)
\* ticks of the driving loop in the three-connection specification
MaxTicks == 2
\* raw per-tick byte counters of the three-connection specification: 0..MaxBytes
MaxBytes == 1
\* connections known to the collaborators in one tick of that specification
MaxFlows == 2
\* ticks of the driving loop in the single-flow specification
MaxChainTicks == 3
\* raw per-tick byte counters of the single-flow specification: 0..MaxChainBytes
MaxChainBytes == 2

(***************************************************************************)
(* f32 arithmetic.                                                         *)
(***************************************************************************)
\* significant bits of an f32 (IEEE-754 binary32)
F32_MANTISSA_BITS == 24

RECURSIVE Pow2(_)
Pow2(k) == IF k = 0 THEN 1 ELSE 2 * Pow2(k - 1)

\* the integers below 2^24 are the ones every f32 operation keeps exactly
F32Exact == Pow2(F32_MANTISSA_BITS)

\* the smallest power of two s >= from with n \div s < 2^24
RECURSIVE F32Ulp(_, _)
F32Ulp(n, from) ==
    IF n \div from < F32Exact THEN from ELSE F32Ulp(n, 2 * from)

\* `x as f32` and the rounding of every f32 result: nearest value with 24
\* significant bits, ties to even
RoundToF32(n) ==
    LET s == F32Ulp(n, 1)
        q == n \div s
        r == n % s
    IN  IF s = 1 THEN n
        ELSE IF 2 * r > s \/ (2 * r = s /\ q % 2 = 1) THEN (q + 1) * s
        ELSE q * s

\* the smallest byte count that `as f32` does not keep: 2^24 + 1
F32Inexact == F32Exact + 1

\* denominator of the fixed-point reading of the f32 values below
DecayDen == 2
\* static BANDWIDTH_DECAY_FACTOR: f32 = 0.5, as a numerator over DecayDen
BANDWIDTH_DECAY_FACTOR == 1

\* calc_avg_bandwidth with the f32 sum rounded to the nearest integer (.round())
\* before the cast
calc_avg_bandwidth_rounded(prev_bandwidth, curr_bandwidth) ==
    IF prev_bandwidth = 0
    THEN curr_bandwidth
    ELSE (RoundToF32(RoundToF32(prev_bandwidth) * BANDWIDTH_DECAY_FACTOR
                     + (DecayDen - BANDWIDTH_DECAY_FACTOR) * RoundToF32(curr_bandwidth))
              + 1) \div DecayDen

\* fn calc_avg_bandwidth(prev_bandwidth, curr_bandwidth) -> u128.
\* The two products by 0.5 are exact in binary floating point, the sum is
\* rounded to f32, and `as u128` truncates toward zero.
calc_avg_bandwidth(prev_bandwidth, curr_bandwidth) ==
    IF prev_bandwidth = 0
    THEN curr_bandwidth
    ELSE RoundToF32(RoundToF32(prev_bandwidth) * BANDWIDTH_DECAY_FACTOR
                    + (DecayDen - BANDWIDTH_DECAY_FACTOR) * RoundToF32(curr_bandwidth))
             \div DecayDen

(***************************************************************************)
(* impl Bandwidth for ConnectionData / NetworkData                         *)
(***************************************************************************)
ConnectionData_get_avg_bytes_uploaded(self) ==
    calc_avg_bandwidth(self.prev_total_bytes_uploaded, self.total_bytes_uploaded)

ConnectionData_get_avg_bytes_downloaded(self) ==
    calc_avg_bandwidth(self.prev_total_bytes_downloaded, self.total_bytes_downloaded)

NetworkData_get_avg_bytes_uploaded(self) ==
    calc_avg_bandwidth(self.prev_total_bytes_uploaded, self.total_bytes_uploaded)

NetworkData_get_avg_bytes_downloaded(self) ==
    calc_avg_bandwidth(self.prev_total_bytes_downloaded, self.total_bytes_downloaded)

(***************************************************************************)
(* Data                                                                    *)
(***************************************************************************)
\* #[derive(Default)] struct NetworkData
NetworkData_default ==
    [total_bytes_downloaded |-> 0, total_bytes_uploaded |-> 0,
     prev_total_bytes_downloaded |-> 0, prev_total_bytes_uploaded |-> 0,
     connection_count |-> 0]

\* #[derive(Default)] struct ConnectionData
ConnectionData_default ==
    [total_bytes_downloaded |-> 0, total_bytes_uploaded |-> 0,
     prev_total_bytes_downloaded |-> 0, prev_total_bytes_uploaded |-> 0,
     process_name |-> "", interface_name |-> ""]

\* the map with no entry (BTreeMap::new(), HashMap::new())
EmptyMap == [k \in {} |-> 0]

\* #[derive(Default)] struct UIState
UIState_default ==
    [processes |-> EmptyMap, remote_addresses |-> EmptyMap,
     connections |-> EmptyMap,
     total_bytes_downloaded |-> 0, total_bytes_uploaded |-> 0]

\* map.entry(key).or_default(): the map with key present
EntryOrDefault(map, key, default) ==
    [k \in DOMAIN map \cup {key} |-> IF k \in DOMAIN map THEN map[k] ELSE default]

\* the map with map[key] replaced by value (writing through the &mut entry)
Store(map, key, value) ==
    [k \in DOMAIN map |-> IF k = key THEN value ELSE map[k]]

\* HashMapRemove as .get(&connection).cloned(): the entry stays in the map
HashMapRemove_keep(map, key) ==
    [value |-> IF key \in DOMAIN map THEN <<map[key]>> ELSE <<>>,
     map   |-> map]

\* HashMapRemove as .remove(&connection).unwrap_or_default() wrapped in Some:
\* a missing entry reads as a ConnectionInfo of zeros
HashMapRemove_or_default(map, key) ==
    [value |-> IF key \in DOMAIN map
               THEN <<map[key]>>
               ELSE <<[interface_name |-> "", total_bytes_downloaded |-> 0,
                       total_bytes_uploaded |-> 0]>>,
     map   |-> [k \in DOMAIN map \ {key} |-> map[k]]]

\* network_utilization.connections.remove(&connection): the Option returned
\* and the map left behind
HashMapRemove(map, key) ==
    [value |-> IF key \in DOMAIN map THEN <<map[key]>> ELSE <<>>,
     map   |-> [k \in DOMAIN map \ {key} |-> map[k]]]

(***************************************************************************)
(* UIState::new                                                            *)
(***************************************************************************)
\* AddTraffic with the second line adding the downloaded bytes again
AddTraffic_swapped(data, connection_info) ==
    [data EXCEPT
        !.total_bytes_downloaded = @ + connection_info.total_bytes_downloaded,
        !.total_bytes_uploaded   = @ + connection_info.total_bytes_downloaded]

\* `x.total_bytes_downloaded += connection_info.total_bytes_downloaded;
\*  x.total_bytes_uploaded += connection_info.total_bytes_uploaded` on an aggregate
AddTraffic(data, connection_info) ==
    [data EXCEPT
        !.total_bytes_downloaded = @ + connection_info.total_bytes_downloaded,
        !.total_bytes_uploaded   = @ + connection_info.total_bytes_uploaded]

\* IncrementCount as `x.connection_count = 1`
IncrementCount_set(data) ==
    [data EXCEPT !.connection_count = 1]

\* `x.connection_count += 1`
IncrementCount(data) ==
    [data EXCEPT !.connection_count = @ + 1]

\* `connection_data.process_name = process_name;
\*  connection_data.interface_name = connection_info.interface_name`
Stamp(connection_data, process_name, connection_info) ==
    [connection_data EXCEPT
        !.process_name   = process_name,
        !.interface_name = connection_info.interface_name]

\* PrevBandwidth carrying the raw totals of the previous round
PrevBandwidth_raw(old, connection) ==
    IF connection \in DOMAIN old.connections
    THEN <<[prev_bytes_downloaded |->
                old.connections[connection].total_bytes_downloaded,
            prev_bytes_uploaded |->
                old.connections[connection].total_bytes_uploaded]>>
    ELSE <<>>

\* PrevBandwidth looking the previous round up by remote address: any
\* connection of the old state to the same host stands in for a missing one
PrevBandwidth_by_address(old, connection) ==
    LET same == {k \in DOMAIN old.connections :
                    k.remote_socket.ip = connection.remote_socket.ip}
        found == IF connection \in same THEN connection
                 ELSE CHOOSE k \in same : TRUE
    IN  IF same = {}
        THEN <<>>
        ELSE <<[prev_bytes_downloaded |->
                    ConnectionData_get_avg_bytes_downloaded(old.connections[found]),
                prev_bytes_uploaded |->
                    ConnectionData_get_avg_bytes_uploaded(old.connections[found])]>>

\* old_state.connections.get(&connection) and, on Some, the two averages
\* prev_bytes_downloaded / prev_bytes_uploaded of the previous round
PrevBandwidth(old, connection) ==
    IF connection \in DOMAIN old.connections
    THEN <<[prev_bytes_downloaded |->
                ConnectionData_get_avg_bytes_downloaded(old.connections[connection]),
            prev_bytes_uploaded |->
                ConnectionData_get_avg_bytes_uploaded(old.connections[connection])]>>
    ELSE <<>>

\* RecordPrev with `=` for `+=`
RecordPrev_assign(data, prev) ==
    IF prev = <<>>
    THEN data
    ELSE [data EXCEPT
            !.prev_total_bytes_downloaded = prev[1].prev_bytes_downloaded,
            !.prev_total_bytes_uploaded   = prev[1].prev_bytes_uploaded]

\* `x.prev_total_bytes_downloaded += prev_bytes_downloaded;
\*  x.prev_total_bytes_uploaded += prev_bytes_uploaded` inside the `if let Some`
RecordPrev(data, prev) ==
    IF prev = <<>>
    THEN data
    ELSE [data EXCEPT
            !.prev_total_bytes_downloaded = @ + prev[1].prev_bytes_downloaded,
            !.prev_total_bytes_uploaded   = @ + prev[1].prev_bytes_uploaded]

\* InitialAccumulator starting from the maps of the old state
InitialAccumulator_carry(utilization, old) ==
    [processes |-> old.processes, remote_addresses |-> old.remote_addresses,
     connections |-> old.connections,
     total_bytes_downloaded |-> 0, total_bytes_uploaded |-> 0,
     network_utilization |-> utilization]

\* the locals of UIState::new before the loop, with the utilization still whole
InitialAccumulator(utilization, old) ==
    [processes |-> EmptyMap, remote_addresses |-> EmptyMap,
     connections |-> EmptyMap,
     total_bytes_downloaded |-> 0, total_bytes_uploaded |-> 0,
     network_utilization |-> utilization]

\* one iteration of `for (connection, process_name) in connections_to_procs`
LoopBody(acc, connection, process_name, old) ==
    LET removed == HashMapRemove(acc.network_utilization, connection)
    IN  IF removed.value = <<>>
        THEN [acc EXCEPT !.network_utilization = removed.map]
        ELSE
          LET connection_info == removed.value[1]
              ip       == connection.remote_socket.ip
              remotes  == EntryOrDefault(acc.remote_addresses, ip, NetworkData_default)
              conns    == EntryOrDefault(acc.connections, connection, ConnectionData_default)
              procs    == EntryOrDefault(acc.processes, process_name, NetworkData_default)
              prev     == PrevBandwidth(old, connection)
              data_for_process ==
                  RecordPrev(IncrementCount(AddTraffic(procs[process_name], connection_info)),
                             prev)
              connection_data ==
                  RecordPrev(Stamp(AddTraffic(conns[connection], connection_info),
                                   process_name, connection_info),
                             prev)
              data_for_remote_address ==
                  RecordPrev(IncrementCount(AddTraffic(remotes[ip], connection_info)),
                             prev)
          IN  [processes        |-> Store(procs, process_name, data_for_process),
               remote_addresses |-> Store(remotes, ip, data_for_remote_address),
               connections      |-> Store(conns, connection, connection_data),
               total_bytes_downloaded |->
                   acc.total_bytes_downloaded + connection_info.total_bytes_downloaded,
               total_bytes_uploaded |->
                   acc.total_bytes_uploaded + connection_info.total_bytes_uploaded,
               network_utilization |-> removed.map]

\* pub fn new(connections_to_procs, mut network_utilization, old_state) -> Self.
\* `order` is the order in which the HashMap hands out its entries.  The
\* result holds the UIState returned and the utilization map as the loop left it.
UIState_new(procs_of, utilization, old, order) ==
    LET step[i \in 0..Len(order)] ==
            IF i = 0
            THEN InitialAccumulator(utilization, old)
            ELSE LoopBody(step[i - 1], order[i], procs_of[order[i]], old)
        final == step[Len(order)]
    IN  [state |-> [processes        |-> final.processes,
                    remote_addresses |-> final.remote_addresses,
                    connections      |-> final.connections,
                    total_bytes_downloaded |-> final.total_bytes_downloaded,
                    total_bytes_uploaded   |-> final.total_bytes_uploaded],
         network_utilization |-> final.network_utilization]

(***************************************************************************)
(* The inputs of a tick                                                    *)
(***************************************************************************)
\* a Connection, of which the aggregation reads remote_socket.ip
Conn(ip, port) == [remote_socket |-> [ip |-> ip, port |-> port]]

\* two flows to one host and one flow to another
Connections == {Conn("A", 1), Conn("A", 2), Conn("B", 1)}
\* the one flow of the single-flow specification
ChainConnections == {Conn("A", 1)}

ProcessNames == {"P", "Q"}
\* the owner of the one flow of the single-flow specification
ChainProcessNames == {"P"}
InterfaceNames == {"eth0"}

\* the ConnectionInfo values of a Utilization with counters in the given sets
ConnectionInfos(downs, ups) ==
    [interface_name : InterfaceNames,
     total_bytes_downloaded : downs, total_bytes_uploaded : ups]

\* the maps from a subset of keys to values
PartialMaps(keys, values) == UNION {[D -> values] : D \in SUBSET keys}

\* the orders in which a HashMap may iterate over the key set S
Orders(S) ==
    {o \in [1..Cardinality(S) -> S] :
        \A i, j \in 1..Cardinality(S) : i # j => o[i] # o[j]}

(***************************************************************************)
(* The driving loop: one call of UIState::new per tick, each consuming the *)
(* state the previous call returned.                                       *)
(***************************************************************************)
Init ==
    /\ state = UIState_default
    /\ old_state = UIState_default
    /\ connections_to_procs = EmptyMap
    /\ utilization_before = EmptyMap
    /\ network_utilization = EmptyMap
    /\ tick = 0

\* what the two collaborators hand to one call: the process mapping and
\* the utilization snapshot; at most `flows` connections are known to either
Inputs(conns, names, infos, flows) ==
    {in \in [procs_of : PartialMaps(conns, names),
             utilization : PartialMaps(conns, infos)] :
        Cardinality(DOMAIN in.procs_of \cup DOMAIN in.utilization) <= flows}

\* the iteration orders of every key set of connections_to_procs
IterationOrders == [S \in SUBSET Connections |-> Orders(S)]

\* the inputs of a tick over the three connections
AllInputs ==
    Inputs(Connections, ProcessNames,
           ConnectionInfos(0..MaxBytes, 0..MaxBytes), MaxFlows)

\* the inputs of a tick over the single flow, with download counters up to
\* and beyond the precision of an f32
ChainInputs ==
    Inputs(ChainConnections, ChainProcessNames,
           ConnectionInfos(0..MaxChainBytes \cup {F32Inexact}, 0..MaxChainBytes),
           Cardinality(ChainConnections))

Tick(inputs, limit) ==
    /\ tick < limit
    /\ \E in \in inputs :
        \E order \in IterationOrders[DOMAIN in.procs_of] :
          LET built == UIState_new(in.procs_of, in.utilization, state, order)
          IN  /\ state' = built.state
              /\ old_state' = state
              /\ connections_to_procs' = in.procs_of
              /\ utilization_before' = in.utilization
              /\ network_utilization' = built.network_utilization
              /\ tick' = tick + 1

TickAll == Tick(AllInputs, MaxTicks)

TickChain == Tick(ChainInputs, MaxChainTicks)

Next == TickAll
Spec == Init /\ [][Next]_vars

NextChain == TickChain
SpecChain == Init /\ [][NextChain]_vars

(***************************************************************************)
(* Vocabulary of the properties                                            *)
(***************************************************************************)
\* the connections the latest call found in both of its inputs
Matched == DOMAIN connections_to_procs \cap DOMAIN utilization_before

\* the connections matched by the latest call that the previous state held
CarriedOver == Matched \cap DOMAIN old_state.connections

\* the connections matched by the latest call that the previous state lacked
ColdStarted == Matched \ DOMAIN old_state.connections

\* the Connection aggregates of the latest state owned by process `name`
ConnectionsOfProcess(name) ==
    {c \in DOMAIN state.connections : state.connections[c].process_name = name}

\* the Connection aggregates of the latest state whose remote IP is `ip`
ConnectionsOfAddress(ip) ==
    {c \in DOMAIN state.connections : c.remote_socket.ip = ip}

\* the sum of f[x] over the x in S
RECURSIVE SumOver(_, _)
SumOver(f, S) ==
    IF S = {} THEN 0
    ELSE LET x == CHOOSE y \in S : TRUE IN f[x] + SumOver(f, S \ {x})

\* the sum over the entries with keys in S of the field the claim is about
SumDown(map, S)     == SumOver([k \in S |-> map[k].total_bytes_downloaded], S)
SumUp(map, S)       == SumOver([k \in S |-> map[k].total_bytes_uploaded], S)
SumPrevDown(map, S) == SumOver([k \in S |-> map[k].prev_total_bytes_downloaded], S)
SumPrevUp(map, S)   == SumOver([k \in S |-> map[k].prev_total_bytes_uploaded], S)
SumCount(map, S)    == SumOver([k \in S |-> map[k].connection_count], S)
SumAvgDown(map, S)  ==
    SumOver([k \in S |-> ConnectionData_get_avg_bytes_downloaded(map[k])], S)
SumAvgUp(map, S)    ==
    SumOver([k \in S |-> ConnectionData_get_avg_bytes_uploaded(map[k])], S)

\* round(p*0.5 + c*0.5), halves rounded away from zero
RoundedMean(p, c) == (p + c + 1) \div 2

\* p*0.5 + c*0.5 with the fraction dropped
TruncatedMean(p, c) == (p + c) \div 2

DecayOf(avg, p, c) ==
    /\ p = 0 => avg = c
    /\ (p > 0 /\ p < F32Exact /\ c < F32Exact) => avg = TruncatedMean(p, c)

C2_ColdStart ==
    \A c \in ColdStarted :
        /\ c \in DOMAIN state.connections
        /\ state.connections[c].prev_total_bytes_downloaded = 0
        /\ state.connections[c].prev_total_bytes_uploaded = 0
        /\ ConnectionData_get_avg_bytes_downloaded(state.connections[c])
             = utilization_before[c].total_bytes_downloaded
        /\ ConnectionData_get_avg_bytes_uploaded(state.connections[c])
             = utilization_before[c].total_bytes_uploaded

\* a cold-started connection with traffic, next to a carried-over one of the
\* same process and host whose previous averages are not zero
C2_Witness ==
    \E c \in ColdStarted, k \in CarriedOver :
        /\ utilization_before[c].total_bytes_downloaded > 0
        /\ utilization_before[c].total_bytes_uploaded > 0
        /\ k.remote_socket.ip = c.remote_socket.ip
        /\ state.connections[k].process_name = state.connections[c].process_name
        /\ state.connections[k].prev_total_bytes_downloaded > 0
        /\ state.connections[k].prev_total_bytes_uploaded > 0

(***************************************************************************)
(* C3                                                                      *)
(***************************************************************************)
\* C3: in every state returned, the smoothed average of each Process
\* aggregate and of each Remote-Address aggregate equals the sum of the
\* smoothed averages of the Connection aggregates of its group, in both
\* directions.
C3_GroupAverageIsSum ==
    /\ \A name \in DOMAIN state.processes :
        /\ NetworkData_get_avg_bytes_downloaded(state.processes[name])
             = SumAvgDown(state.connections, ConnectionsOfProcess(name))
        /\ NetworkData_get_avg_bytes_uploaded(state.processes[name])
             = SumAvgUp(state.connections, ConnectionsOfProcess(name))
    /\ \A ip \in DOMAIN state.remote_addresses :
        /\ NetworkData_get_avg_bytes_downloaded(state.remote_addresses[ip])
             = SumAvgDown(state.connections, ConnectionsOfAddress(ip))
        /\ NetworkData_get_avg_bytes_uploaded(state.remote_addresses[ip])
             = SumAvgUp(state.connections, ConnectionsOfAddress(ip))

(***************************************************************************)
(* C4                                                                      *)
(***************************************************************************)
\* C4: in every state returned, prev_total_bytes_downloaded and
\* prev_total_bytes_uploaded of each Process aggregate and of each
\* Remote-Address aggregate equal the sums of the same fields over the
\* Connection aggregates of that tick with that process name, resp. remote IP.
C4_PrevTotalsAdditive ==
    /\ \A name \in DOMAIN state.processes :
        /\ state.processes[name].prev_total_bytes_downloaded
             = SumPrevDown(state.connections, ConnectionsOfProcess(name))
        /\ state.processes[name].prev_total_bytes_uploaded
             = SumPrevUp(state.connections, ConnectionsOfProcess(name))
    /\ \A ip \in DOMAIN state.remote_addresses :
        /\ state.remote_addresses[ip].prev_total_bytes_downloaded
             = SumPrevDown(state.connections, ConnectionsOfAddress(ip))
        /\ state.remote_addresses[ip].prev_total_bytes_uploaded
             = SumPrevUp(state.connections, ConnectionsOfAddress(ip))

\* a process and a host that each fold two carried-over connections, every
\* one of them with non-zero previous averages
C4_Witness ==
    \E name \in DOMAIN state.processes, ip \in DOMAIN state.remote_addresses :
        /\ Cardinality(ConnectionsOfProcess(name)) = 2
        /\ Cardinality(ConnectionsOfAddress(ip)) = 2
        /\ \A c \in ConnectionsOfProcess(name) \cup ConnectionsOfAddress(ip) :
            /\ state.connections[c].prev_total_bytes_downloaded > 0
            /\ state.connections[c].prev_total_bytes_uploaded > 0
        /\ state.processes[name].prev_total_bytes_downloaded >= 2
        /\ state.remote_addresses[ip].prev_total_bytes_uploaded >= 2

(***************************************************************************)
(* C5                                                                      *)
(***************************************************************************)
\* C5: in every state returned, the top-level total_bytes_downloaded and
\* total_bytes_uploaded equal the sums of those fields over all entries of
\* the connections map, and the same sums over all Process aggregates and
\* over all Remote-Address aggregates give the same two values.
C5_GlobalTotals ==
    /\ state.total_bytes_downloaded
         = SumDown(state.connections, DOMAIN state.connections)
    /\ state.total_bytes_uploaded
         = SumUp(state.connections, DOMAIN state.connections)
    /\ state.total_bytes_downloaded
         = SumDown(state.processes, DOMAIN state.processes)
    /\ state.total_bytes_uploaded
         = SumUp(state.processes, DOMAIN state.processes)
    /\ state.total_bytes_downloaded
         = SumDown(state.remote_addresses, DOMAIN state.remote_addresses)
    /\ state.total_bytes_uploaded
         = SumUp(state.remote_addresses, DOMAIN state.remote_addresses)

\* two connections of two processes and two hosts, with different download
\* and upload totals
C5_Witness ==
    /\ Cardinality(DOMAIN state.connections) = 2
    /\ Cardinality(DOMAIN state.processes) = 2
    /\ Cardinality(DOMAIN state.remote_addresses) = 2
    /\ state.total_bytes_downloaded = 2
    /\ state.total_bytes_uploaded = 1

(***************************************************************************)
(* C6                                                                      *)
(***************************************************************************)
\* the map without the entry of key
Without(map, key) == [k \in DOMAIN map \ {key} |-> map[k]]

\* C6: a connection in connections_to_procs that is not in the utilization
\* snapshot has no entry in connections, and the state returned equals the
\* state built from the same inputs with that connection removed from
\* connections_to_procs (so it creates no Process or Remote-Address entry
\* and changes no total, connection_count or prev_total_* value).
C6_UnmatchedIgnored ==
    \A c \in DOMAIN connections_to_procs \ DOMAIN utilization_before :
        /\ c \notin DOMAIN state.connections
        /\ \A o \in Orders(DOMAIN connections_to_procs \ {c}) :
            UIState_new(Without(connections_to_procs, c), utilization_before,
                        old_state, o).state = state

\* an unmatched connection whose process and host no matched connection
\* shares, next to a matched connection that the previous state also held
C6_Witness ==
    \E c \in DOMAIN connections_to_procs \ DOMAIN utilization_before :
        /\ Matched # {}
        /\ CarriedOver # {}
        /\ c \in DOMAIN old_state.connections
        /\ connections_to_procs[c] \notin DOMAIN state.processes
        /\ c.remote_socket.ip \notin DOMAIN state.remote_addresses

(***************************************************************************)
(* C7                                                                      *)
(***************************************************************************)
\* C7: after every tick the key sets of the three maps of the new state
\* are exactly the connections matched this tick, their process names and
\* their remote IPs; so a process, remote address or connection of the
\* previous state without a matched connection this tick has no entry.
C7_NoStaleCarryOver ==
    /\ DOMAIN state.connections = Matched
    /\ DOMAIN state.processes = {connections_to_procs[c] : c \in Matched}
    /\ DOMAIN state.remote_addresses = {c.remote_socket.ip : c \in Matched}

\* the previous state holds a process, a remote address and a connection
\* that are gone from the new state, which is not empty
C7_Witness ==
    /\ DOMAIN state.connections # {}
    /\ DOMAIN old_state.processes \ DOMAIN state.processes # {}
    /\ DOMAIN old_state.remote_addresses \ DOMAIN state.remote_addresses # {}
    /\ DOMAIN old_state.connections \ DOMAIN state.connections # {}

(***************************************************************************)
(* C8                                                                      *)
(***************************************************************************)
\* C8: for a connection matched in two consecutive ticks, the prev_total_*
\* fields stored on its Connection aggregate equal the smoothed averages of
\* its aggregate of the tick before, not the raw totals of that tick.
C8_SmoothedCarried ==
    \A c \in CarriedOver :
        /\ c \in DOMAIN state.connections
        /\ state.connections[c].prev_total_bytes_downloaded
             = ConnectionData_get_avg_bytes_downloaded(old_state.connections[c])
        /\ state.connections[c].prev_total_bytes_uploaded
             = ConnectionData_get_avg_bytes_uploaded(old_state.connections[c])

\* a third tick of one connection: the tick before had raw totals that
\* differ from its averages, and the averages are what is carried
C8_Witness ==
    /\ tick = 3
    /\ \E c \in CarriedOver :
        /\ ConnectionData_get_avg_bytes_downloaded(old_state.connections[c])
             # old_state.connections[c].total_bytes_downloaded
        /\ ConnectionData_get_avg_bytes_uploaded(old_state.connections[c])
             # old_state.connections[c].total_bytes_uploaded
        /\ state.connections[c].prev_total_bytes_downloaded
             = ConnectionData_get_avg_bytes_downloaded(old_state.connections[c])
        /\ state.connections[c].prev_total_bytes_uploaded
             = ConnectionData_get_avg_bytes_uploaded(old_state.connections[c])

(***************************************************************************)
(* C9                                                                      *)
(***************************************************************************)
\* C9: in every state returned, the connection_count of each Process
\* aggregate is the number of Connection aggregates with that process name,
\* that of each Remote-Address aggregate the number with that remote IP,
\* every count is at least 1, and both families of counts sum to the size
\* of the connections map.
C9_ConnectionCount ==
    /\ \A name \in DOMAIN state.processes :
        /\ state.processes[name].connection_count
             = Cardinality(ConnectionsOfProcess(name))
        /\ state.processes[name].connection_count >= 1
    /\ \A ip \in DOMAIN state.remote_addresses :
        /\ state.remote_addresses[ip].connection_count
             = Cardinality(ConnectionsOfAddress(ip))
        /\ state.remote_addresses[ip].connection_count >= 1
    /\ SumCount(state.processes, DOMAIN state.processes)
         = Cardinality(DOMAIN state.connections)
    /\ SumCount(state.remote_addresses, DOMAIN state.remote_addresses)
         = Cardinality(DOMAIN state.connections)

\* two connections of one process to two addresses, after a tick in which
\* the process had one connection: count 2 for the process, 1 per address
C9_Witness ==
    \E name \in DOMAIN state.processes \cap DOMAIN old_state.processes :
        /\ old_state.processes[name].connection_count = 1
        /\ state.processes[name].connection_count = 2
        /\ Cardinality(DOMAIN state.remote_addresses) = 2
        /\ \A ip \in DOMAIN state.remote_addresses :
            state.remote_addresses[ip].connection_count = 1

(***************************************************************************)
(* C10                                                                     *)
(***************************************************************************)
\* C10: when the build finishes, the utilization map holds exactly the
\* entries whose connection was not in connections_to_procs, unchanged;
\* each connection in both inputs was folded into the output once (its
\* Connection aggregate holds its raw counters, and the global totals are
\* the sums of the raw counters of the matched connections).
C10_SingleConsumption ==
    /\ DOMAIN network_utilization
         = DOMAIN utilization_before \ DOMAIN connections_to_procs
    /\ \A c \in DOMAIN network_utilization :
        network_utilization[c] = utilization_before[c]
    /\ \A c \in Matched :
        /\ c \in DOMAIN state.connections
        /\ state.connections[c].total_bytes_downloaded
             = utilization_before[c].total_bytes_downloaded
        /\ state.connections[c].total_bytes_uploaded
             = utilization_before[c].total_bytes_uploaded
    /\ state.total_bytes_downloaded = SumDown(utilization_before, Matched)
    /\ state.total_bytes_uploaded = SumUp(utilization_before, Matched)

\* a call with a matched connection with traffic and a utilization entry
\* that no process owns, which is left in the map
C10_Witness ==
    /\ \E c \in Matched :
        /\ utilization_before[c].total_bytes_downloaded > 0
        /\ utilization_before[c].total_bytes_uploaded > 0
    /\ \E c \in DOMAIN network_utilization :
        /\ c \notin DOMAIN connections_to_procs
        /\ network_utilization[c].total_bytes_downloaded > 0

====
